---- MODULE Spec2Model ----
(***************************************************************************)
(* Model of the shopping-cart reducer of src/src/redux/store.js (the cart  *)
(* slice: initialState and the reducers addItem, removeItem,               *)
(* updateQuantity, decreaseQuantity, clearCart).                           *)
(*                                                                         *)
(* The slice state is the triple cart / totalQuantity / totalAmount.  The  *)
(* store holds one state value and applies one reducer per dispatched      *)
(* action.  `action` is the action dispatched last and `prev` the state    *)
(* the store held when it was dispatched.                                  *)
(*                                                                         *)
(* Spec is the store driven by any sequence of the five actions; SpecCart  *)
(* is the store driven through the handlers of the Cart component          *)
(* (src/README.md).                                                        *)
(*                                                                         *)
(* Prices are integers (an amount in the smallest currency unit), so the   *)
(* sums below are exact; JavaScript rounding of fractional prices is not   *)
(* modelled.                                                               *)
(***************************************************************************)
EXTENDS Integers, Sequences, FiniteSets, TLC

VARIABLES cart, totalQuantity, totalAmount, action, prev

vars == <<cart, totalQuantity, totalAmount, action, prev>>

(* ------------------------------ bounds --------------------------------- *)
MaxId == 2                \* product ids are 1..MaxId
MaxPrice == 1             \* payload prices are 0..MaxPrice
MaxTotalQuantity == 3     \* dispatches that would exceed it are not explored
MaxDrift == 1             \* |totalAmount - sum of price * quantity| stays within it

Ids == 1..MaxId
Prices == 0..MaxPrice
(* quantities an updateQuantity payload carries: negative, zero, positive *)
Quantities == (0 - 1)..MaxTotalQuantity

(* the display name and the image the product list gives a product; the    *)
(* products with an odd id have no image and their payloads omit the field *)
NameOf(id) == "Product " \o ToString(id)
ImageOf(id) == ToString(id) \o ".png"
HasImage(id) == id % 2 = 0

(* addItem payloads: {id, name, price} with the image field optional; the  *)
(* price is whatever the caller passes, also for an id added before        *)
ItemPayloads ==
    { [id |-> i, name |-> NameOf(i), price |-> p] :
          i \in {j \in Ids : ~HasImage(j)}, p \in Prices }
        \cup { [id |-> i, name |-> NameOf(i), price |-> p,
                image |-> ImageOf(i)] :
                  i \in {j \in Ids : HasImage(j)}, p \in Prices }

(* updateQuantity payloads *)
QuantityPayloads == [id : Ids, quantity : Quantities]

(* ------------------------------ helpers -------------------------------- *)
Abs(n) == IF n < 0 THEN 0 - n ELSE n

(* Array.prototype.find(item => item.id === id): the index of the first    *)
(* matching element, 0 when find returns undefined                         *)
find(c, id) ==
    IF \E i \in 1..Len(c) : c[i].id = id
    THEN CHOOSE i \in 1..Len(c) :
            /\ c[i].id = id
            /\ \A j \in 1..(i - 1) : c[j].id # id
    ELSE 0

(* Array.prototype.filter(item => item.id !== id) *)
KeepOther(id, item) == item.id # id
filter(c, id) == SelectSeq(c, LAMBDA item : KeepOther(id, item))

(* newItem.image || '' *)
imageOrEmpty(newItem) ==
    IF "image" \in DOMAIN newItem /\ newItem.image # ""
    THEN newItem.image
    ELSE ""

(* the slice state as one value *)
State == [cart |-> cart, totalQuantity |-> totalQuantity,
          totalAmount |-> totalAmount]

initialState == [cart |-> <<>>, totalQuantity |-> 0, totalAmount |-> 0]

(* the sums the totals are meant to track *)
RECURSIVE SumQuantity(_)
SumQuantity(c) ==
    IF c = <<>> THEN 0 ELSE Head(c).quantity + SumQuantity(Tail(c))

RECURSIVE SumAmount(_)
SumAmount(c) ==
    IF c = <<>> THEN 0
    ELSE Head(c).price * Head(c).quantity + SumAmount(Tail(c))

(* ------------------------------ reducers ------------------------------- *)
(* addItem without the lookup: every add pushes a new entry *)
addItem_alwaysPush(state, newItem) ==
    [cart |-> Append(state.cart,
                     [id |-> newItem.id,
                      name |-> newItem.name,
                      price |-> newItem.price,
                      quantity |-> 1,
                      image |-> imageOrEmpty(newItem)]),
     totalQuantity |-> state.totalQuantity + 1,
     totalAmount |-> state.totalAmount + newItem.price]

(* addItem that adds the stored price of an existing item to totalAmount *)
addItem_storedPrice(state, newItem) ==
    LET existingItem == find(state.cart, newItem.id)
    IN  IF existingItem # 0
        THEN [cart |-> [state.cart EXCEPT ![existingItem].quantity = @ + 1],
              totalQuantity |-> state.totalQuantity + 1,
              totalAmount |->
                  state.totalAmount + state.cart[existingItem].price]
        ELSE addItem_alwaysPush(state, newItem)

(* addItem that puts a new entry at the front (unshift instead of push) *)
addItem_unshift(state, newItem) ==
    LET existingItem == find(state.cart, newItem.id)
    IN  IF existingItem # 0
        THEN [cart |-> [state.cart EXCEPT ![existingItem].quantity = @ + 1],
              totalQuantity |-> state.totalQuantity + 1,
              totalAmount |-> state.totalAmount + newItem.price]
        ELSE [cart |-> <<[id |-> newItem.id,
                          name |-> newItem.name,
                          price |-> newItem.price,
                          quantity |-> 1,
                          image |-> imageOrEmpty(newItem)]>> \o state.cart,
              totalQuantity |-> state.totalQuantity + 1,
              totalAmount |-> state.totalAmount + newItem.price]

(* addItem that refreshes the stored price of an existing item *)
addItem_refreshPrice(state, newItem) ==
    LET existingItem == find(state.cart, newItem.id)
    IN  IF existingItem # 0
        THEN [cart |-> [state.cart EXCEPT
                          ![existingItem].quantity = @ + 1,
                          ![existingItem].price = newItem.price],
              totalQuantity |-> state.totalQuantity + 1,
              totalAmount |-> state.totalAmount + newItem.price]
        ELSE addItem_alwaysPush(state, newItem)

(* addItem that keeps the cart sorted by id: a new entry goes before the    *)
(* first item with a larger id                                             *)
addItem_sorted(state, newItem) ==
    LET existingItem == find(state.cart, newItem.id)
        smaller == SelectSeq(state.cart, LAMBDA item : item.id < newItem.id)
        larger == SelectSeq(state.cart, LAMBDA item : item.id > newItem.id)
    IN  IF existingItem # 0
        THEN [cart |-> [state.cart EXCEPT ![existingItem].quantity = @ + 1],
              totalQuantity |-> state.totalQuantity + 1,
              totalAmount |-> state.totalAmount + newItem.price]
        ELSE [cart |-> smaller
                         \o <<[id |-> newItem.id,
                               name |-> newItem.name,
                               price |-> newItem.price,
                               quantity |-> 1,
                               image |-> imageOrEmpty(newItem)]>>
                         \o larger,
              totalQuantity |-> state.totalQuantity + 1,
              totalAmount |-> state.totalAmount + newItem.price]

(* addItem without the image default: the image of a payload without one  *)
(* stays undefined on the new entry                                        *)
addItem_noImageDefault(state, newItem) ==
    LET existingItem == find(state.cart, newItem.id)
        newCart ==
            IF existingItem # 0
            THEN [state.cart EXCEPT ![existingItem].quantity = @ + 1]
            ELSE Append(state.cart,
                        IF "image" \in DOMAIN newItem
                        THEN [id |-> newItem.id,
                              name |-> newItem.name,
                              price |-> newItem.price,
                              quantity |-> 1,
                              image |-> newItem.image]
                        ELSE [id |-> newItem.id,
                              name |-> newItem.name,
                              price |-> newItem.price,
                              quantity |-> 1])
    IN  [cart |-> newCart,
         totalQuantity |-> state.totalQuantity + 1,
         totalAmount |-> state.totalAmount + newItem.price]

addItem(state, newItem) ==
    LET existingItem == find(state.cart, newItem.id)
        newCart ==
            IF existingItem # 0
            THEN [state.cart EXCEPT ![existingItem].quantity = @ + 1]
            ELSE Append(state.cart,
                        [id |-> newItem.id,
                         name |-> newItem.name,
                         price |-> newItem.price,
                         quantity |-> 1,
                         image |-> imageOrEmpty(newItem)])
    IN  [cart |-> newCart,
         totalQuantity |-> state.totalQuantity + 1,
         totalAmount |-> state.totalAmount + newItem.price]

(* removeItem that subtracts one unit price instead of price * quantity *)
removeItem_unitPrice(state, id) ==
    LET existingItem == find(state.cart, id)
    IN  IF existingItem # 0
        THEN [cart |-> filter(state.cart, id),
              totalQuantity |->
                  state.totalQuantity - state.cart[existingItem].quantity,
              totalAmount |->
                  state.totalAmount - state.cart[existingItem].price]
        ELSE state

removeItem(state, id) ==
    LET existingItem == find(state.cart, id)
    IN  IF existingItem # 0
        THEN [cart |-> filter(state.cart, id),
              totalQuantity |->
                  state.totalQuantity - state.cart[existingItem].quantity,
              totalAmount |->
                  state.totalAmount
                    - state.cart[existingItem].price
                        * state.cart[existingItem].quantity]
        ELSE state

(* updateQuantity that tests quantity < 0 instead of quantity <= 0 *)
updateQuantity_strict(state, payload) ==
    LET id == payload.id
        quantity == payload.quantity
        existingItem == find(state.cart, id)
    IN  IF existingItem # 0
        THEN IF quantity < 0
             THEN [cart |-> filter(state.cart, id),
                   totalQuantity |->
                       state.totalQuantity - state.cart[existingItem].quantity,
                   totalAmount |->
                       state.totalAmount
                         - state.cart[existingItem].price
                             * state.cart[existingItem].quantity]
             ELSE LET quantityDiff ==
                          quantity - state.cart[existingItem].quantity
                  IN  [cart |-> [state.cart EXCEPT
                                   ![existingItem].quantity = quantity],
                       totalQuantity |-> state.totalQuantity + quantityDiff,
                       totalAmount |->
                           state.totalAmount
                             + state.cart[existingItem].price * quantityDiff]
        ELSE state

(* updateQuantity that adds the new quantity to totalQuantity, not the      *)
(* difference to the old one                                               *)
updateQuantity_addQuantity(state, payload) ==
    LET id == payload.id
        quantity == payload.quantity
        existingItem == find(state.cart, id)
    IN  IF existingItem # 0
        THEN IF quantity <= 0
             THEN [cart |-> filter(state.cart, id),
                   totalQuantity |->
                       state.totalQuantity - state.cart[existingItem].quantity,
                   totalAmount |->
                       state.totalAmount
                         - state.cart[existingItem].price
                             * state.cart[existingItem].quantity]
             ELSE LET quantityDiff ==
                          quantity - state.cart[existingItem].quantity
                  IN  [cart |-> [state.cart EXCEPT
                                   ![existingItem].quantity = quantity],
                       totalQuantity |-> state.totalQuantity + quantity,
                       totalAmount |->
                           state.totalAmount
                             + state.cart[existingItem].price * quantityDiff]
        ELSE state

updateQuantity(state, payload) ==
    LET id == payload.id
        quantity == payload.quantity
        existingItem == find(state.cart, id)
    IN  IF existingItem # 0
        THEN IF quantity <= 0
             THEN [cart |-> filter(state.cart, id),
                   totalQuantity |->
                       state.totalQuantity - state.cart[existingItem].quantity,
                   totalAmount |->
                       state.totalAmount
                         - state.cart[existingItem].price
                             * state.cart[existingItem].quantity]
             ELSE LET quantityDiff ==
                          quantity - state.cart[existingItem].quantity
                  IN  [cart |-> [state.cart EXCEPT
                                   ![existingItem].quantity = quantity],
                       totalQuantity |-> state.totalQuantity + quantityDiff,
                       totalAmount |->
                           state.totalAmount
                             + state.cart[existingItem].price * quantityDiff]
        ELSE state

(* decreaseQuantity that forgets totalQuantity-- when it deletes the item *)
decreaseQuantity_noCount(state, id) ==
    LET existingItem == find(state.cart, id)
    IN  IF existingItem # 0
        THEN IF state.cart[existingItem].quantity = 1
             THEN [cart |-> filter(state.cart, id),
                   totalQuantity |-> state.totalQuantity,
                   totalAmount |->
                       state.totalAmount - state.cart[existingItem].price]
             ELSE [cart |-> [state.cart EXCEPT
                               ![existingItem].quantity = @ - 1],
                   totalQuantity |-> state.totalQuantity - 1,
                   totalAmount |->
                       state.totalAmount - state.cart[existingItem].price]
        ELSE state

(* decreaseQuantity without the quantity === 1 branch *)
decreaseQuantity_noDelete(state, id) ==
    LET existingItem == find(state.cart, id)
    IN  IF existingItem # 0
        THEN [cart |-> [state.cart EXCEPT ![existingItem].quantity = @ - 1],
              totalQuantity |-> state.totalQuantity - 1,
              totalAmount |->
                  state.totalAmount - state.cart[existingItem].price]
        ELSE state

(* decreaseQuantity that decrements totalQuantity before the lookup *)
decreaseQuantity_unguarded(state, id) ==
    LET existingItem == find(state.cart, id)
    IN  IF existingItem # 0
        THEN IF state.cart[existingItem].quantity = 1
             THEN [cart |-> filter(state.cart, id),
                   totalQuantity |-> state.totalQuantity - 1,
                   totalAmount |->
                       state.totalAmount - state.cart[existingItem].price]
             ELSE [cart |-> [state.cart EXCEPT
                               ![existingItem].quantity = @ - 1],
                   totalQuantity |-> state.totalQuantity - 1,
                   totalAmount |->
                       state.totalAmount - state.cart[existingItem].price]
        ELSE [state EXCEPT !.totalQuantity = @ - 1]

(* decreaseQuantity that forgets totalAmount when it deletes the item *)
decreaseQuantity_noAmount(state, id) ==
    LET existingItem == find(state.cart, id)
    IN  IF existingItem # 0
        THEN IF state.cart[existingItem].quantity = 1
             THEN [cart |-> filter(state.cart, id),
                   totalQuantity |-> state.totalQuantity - 1,
                   totalAmount |-> state.totalAmount]
             ELSE [cart |-> [state.cart EXCEPT
                               ![existingItem].quantity = @ - 1],
                   totalQuantity |-> state.totalQuantity - 1,
                   totalAmount |->
                       state.totalAmount - state.cart[existingItem].price]
        ELSE state

(* decreaseQuantity that forgets totalAmount when the item stays *)
decreaseQuantity_keepAmount(state, id) ==
    LET existingItem == find(state.cart, id)
    IN  IF existingItem # 0
        THEN IF state.cart[existingItem].quantity = 1
             THEN [cart |-> filter(state.cart, id),
                   totalQuantity |-> state.totalQuantity - 1,
                   totalAmount |->
                       state.totalAmount - state.cart[existingItem].price]
             ELSE [cart |-> [state.cart EXCEPT
                               ![existingItem].quantity = @ - 1],
                   totalQuantity |-> state.totalQuantity - 1,
                   totalAmount |-> state.totalAmount]
        ELSE state

decreaseQuantity(state, id) ==
    LET existingItem == find(state.cart, id)
    IN  IF existingItem # 0
        THEN IF state.cart[existingItem].quantity = 1
             THEN [cart |-> filter(state.cart, id),
                   totalQuantity |-> state.totalQuantity - 1,
                   totalAmount |->
                       state.totalAmount - state.cart[existingItem].price]
             ELSE [cart |-> [state.cart EXCEPT
                               ![existingItem].quantity = @ - 1],
                   totalQuantity |-> state.totalQuantity - 1,
                   totalAmount |->
                       state.totalAmount - state.cart[existingItem].price]
        ELSE state

(* clearCart that leaves totalAmount as it is *)
clearCart_keepAmount(state) ==
    [cart |-> <<>>, totalQuantity |-> 0, totalAmount |-> state.totalAmount]

clearCart(state) ==
    [cart |-> <<>>, totalQuantity |-> 0, totalAmount |-> 0]

(* ------------------------------ the store ------------------------------ *)
(* the part of the state space that is explored *)
InBounds(state) ==
    /\ state.totalQuantity <= MaxTotalQuantity
    /\ Abs(state.totalAmount - SumAmount(state.cart)) <= MaxDrift
    /\ \A i \in 1..Len(state.cart) :
          state.cart[i].quantity <= MaxTotalQuantity

(* store.dispatch(a): the reducer's result replaces the state *)
Dispatch(a, next) ==
    /\ InBounds(next)
    /\ prev' = State
    /\ action' = a
    /\ cart' = next.cart
    /\ totalQuantity' = next.totalQuantity
    /\ totalAmount' = next.totalAmount

Init ==
    /\ cart = initialState.cart
    /\ totalQuantity = initialState.totalQuantity
    /\ totalAmount = initialState.totalAmount
    /\ action = [type |-> "@@INIT"]
    /\ prev = initialState

AddItem ==
    \E newItem \in ItemPayloads :
        Dispatch([type |-> "addItem", payload |-> newItem],
                 addItem(State, newItem))

RemoveItem ==
    \E id \in Ids :
        Dispatch([type |-> "removeItem", payload |-> id],
                 removeItem(State, id))

UpdateQuantity ==
    \E payload \in QuantityPayloads :
        Dispatch([type |-> "updateQuantity", payload |-> payload],
                 updateQuantity(State, payload))

DecreaseQuantity ==
    \E id \in Ids :
        Dispatch([type |-> "decreaseQuantity", payload |-> id],
                 decreaseQuantity(State, id))

ClearCart ==
    Dispatch([type |-> "clearCart"], clearCart(State))

Next ==
    \/ AddItem
    \/ RemoveItem
    \/ UpdateQuantity
    \/ DecreaseQuantity
    \/ ClearCart

Spec == Init /\ [][Next]_vars

(* ------------------------- the Cart component ------------------------- *)
(* The Cart component (README.md) renders one row per cart item and        *)
(* dispatches from its handlers.  The text of the quantity input is a      *)
(* sequence of characters.                                                 *)
InputValues ==
    { <<>>, <<"0">>, <<"1">>, <<"2">>, <<"3">>, <<"0", "2">>,
      <<"-", "1">>, <<"x">>, <<"2", "x">> }

DigitChars == <<"0", "1", "2", "3", "4", "5", "6", "7", "8", "9">>
IsDigit(ch) == \E d \in 1..10 : DigitChars[d] = ch
DigitValue(ch) == (CHOOSE d \in 1..10 : DigitChars[d] = ch) - 1

(* the longest prefix of str made of digits *)
RECURSIVE DigitPrefix(_)
DigitPrefix(str) ==
    IF str # <<>> /\ IsDigit(Head(str))
    THEN <<Head(str)>> \o DigitPrefix(Tail(str))
    ELSE <<>>

(* the value of a sequence of digits, read in base 10 after acc *)
RECURSIVE DecimalValue(_, _)
DecimalValue(digits, acc) ==
    IF digits = <<>> THEN acc
    ELSE DecimalValue(Tail(digits), acc * 10 + DigitValue(Head(digits)))

(* parseInt(str, 10): an optional sign, then the digits up to the first    *)
(* other character; NaN when there is no digit                             *)
parseInt(str) ==
    LET signed == str # <<>> /\ Head(str) \in {"-", "+"}
        digits == DigitPrefix(IF signed THEN Tail(str) ELSE str)
    IN  IF digits = <<>>
        THEN [isNaN |-> TRUE, value |-> 0]
        ELSE [isNaN |-> FALSE,
              value |-> IF signed /\ Head(str) = "-"
                        THEN 0 - DecimalValue(digits, 0)
                        ELSE DecimalValue(digits, 0)]

HandleRemoveItem ==
    \E i \in 1..Len(cart) :
        Dispatch([type |-> "removeItem", payload |-> cart[i].id],
                 removeItem(State, cart[i].id))

(* the + button passes the cart item itself as the addItem payload *)
HandleIncreaseQuantity ==
    \E i \in 1..Len(cart) :
        Dispatch([type |-> "addItem", payload |-> cart[i]],
                 addItem(State, cart[i]))

HandleDecreaseQuantity ==
    \E i \in 1..Len(cart) :
        Dispatch([type |-> "decreaseQuantity", payload |-> cart[i].id],
                 decreaseQuantity(State, cart[i].id))

(* onChange of the quantity input of a row *)
HandleUpdateQuantity ==
    \E i \in 1..Len(cart) : \E quantity \in InputValues :
        LET newQuantity == parseInt(quantity)
            payload == [id |-> cart[i].id, quantity |-> newQuantity.value]
        IN  IF ~newQuantity.isNaN /\ newQuantity.value >= 0
            THEN Dispatch([type |-> "updateQuantity", payload |-> payload],
                          updateQuantity(State, payload))
            ELSE UNCHANGED vars

(* the Clear Cart button is rendered for a cart that is not empty and asks *)
(* for confirmation                                                        *)
HandleClearCart ==
    /\ Len(cart) > 0
    /\ \E confirmed \in BOOLEAN :
          IF confirmed
          THEN Dispatch([type |-> "clearCart"], clearCart(State))
          ELSE UNCHANGED vars

(* the cart as the user drives it: items enter by addItem from the product *)
(* list, everything else goes through the Cart component                   *)
NextCart ==
    \/ AddItem
    \/ HandleRemoveItem
    \/ HandleIncreaseQuantity
    \/ HandleDecreaseQuantity
    \/ HandleUpdateQuantity
    \/ HandleClearCart

SpecCart == Init /\ [][NextCart]_vars

(* ------------------------- what the last action did -------------------- *)
(* the id the last action is about; 0 for @@INIT and clearCart *)
ActionId ==
    CASE action.type = "addItem" -> action.payload.id
      [] action.type = "updateQuantity" -> action.payload.id
      [] action.type = "removeItem" -> action.payload
      [] action.type = "decreaseQuantity" -> action.payload
      [] OTHER -> 0

(* position of that id before / after the action, 0 when not in the cart *)
PrevIndex == find(prev.cart, ActionId)
CurIndex == find(cart, ActionId)

(* the sequence c without its k-th element *)
Without(c, k) == SubSeq(c, 1, k - 1) \o SubSeq(c, k + 1, Len(c))

(* ------------------------------ claims --------------------------------- *)

(* C1: in every reachable state totalAmount equals the sum of              *)
(* price * quantity over the items of the cart.                            *)
C1_TotalAmountIsSum == totalAmount = SumAmount(cart)

(* C2: in every reachable state totalQuantity equals the sum of quantity   *)
(* over the items of the cart.                                             *)
C2_TotalQuantityIsSum == totalQuantity = SumQuantity(cart)

(* a decreaseQuantity has just deleted one of two items *)
C2_Witness ==
    /\ action.type = "decreaseQuantity"
    /\ Len(prev.cart) = 2
    /\ Len(cart) = 1
    /\ totalQuantity = 2

(* C3: every item in the cart has an integer quantity >= 1; an             *)
(* updateQuantity with quantity <= 0 and a decreaseQuantity on an item of  *)
(* quantity 1 delete the item instead of leaving it with quantity <= 0.    *)
C3_QuantityAtLeastOne ==
    /\ \A i \in 1..Len(cart) :
          cart[i].quantity \in Int /\ cart[i].quantity >= 1
    /\ (action.type = "updateQuantity" /\ action.payload.quantity <= 0)
          => CurIndex = 0
    /\ (/\ action.type = "decreaseQuantity"
        /\ PrevIndex # 0
        /\ prev.cart[PrevIndex].quantity = 1)
          => CurIndex = 0

(* a decreaseQuantity has just acted on an item of quantity 1 *)
C3_Witness ==
    /\ action.type = "decreaseQuantity"
    /\ PrevIndex # 0
    /\ prev.cart[PrevIndex].quantity = 1
    /\ Len(cart) = Len(prev.cart) - 1

(* C4: no two items in the cart have the same id; addItem with an id       *)
(* already present never appends a second entry for that id.               *)
C4_UniqueIds ==
    /\ \A i, j \in 1..Len(cart) : cart[i].id = cart[j].id => i = j
    /\ (action.type = "addItem" /\ PrevIndex # 0)
          => Len(cart) = Len(prev.cart)

(* an addItem has just acted on an id that was already in the cart *)
C4_Witness ==
    /\ action.type = "addItem"
    /\ PrevIndex # 0
    /\ Len(cart) = 2

(* C5: addItem on an id already in the cart increases that item's quantity *)
(* by 1, totalQuantity by 1 and totalAmount by the payload's price (not    *)
(* the stored one), and leaves the length of the cart unchanged.           *)
C5_AddExisting ==
    (action.type = "addItem" /\ PrevIndex # 0) =>
        /\ Len(cart) = Len(prev.cart)
        /\ CurIndex = PrevIndex
        /\ cart[CurIndex].quantity = prev.cart[PrevIndex].quantity + 1
        /\ totalQuantity = prev.totalQuantity + 1
        /\ totalAmount = prev.totalAmount + action.payload.price

(* an addItem has just acted on a present id with a price that differs     *)
(* from the stored one                                                     *)
C5_Witness ==
    /\ action.type = "addItem"
    /\ PrevIndex # 0
    /\ action.payload.price # prev.cart[PrevIndex].price
    /\ cart[CurIndex].quantity = 2

(* C6: addItem on an id not in the cart appends one item at the end with   *)
(* quantity 1 and the payload's name and price (image "" when absent),     *)
(* adds 1 to totalQuantity and the payload price to totalAmount, and       *)
(* leaves every item that was there unchanged.                             *)
C6_AddNew ==
    (action.type = "addItem" /\ PrevIndex = 0) =>
        /\ Len(cart) = Len(prev.cart) + 1
        /\ SubSeq(cart, 1, Len(prev.cart)) = prev.cart
        /\ cart[Len(cart)].id = action.payload.id
        /\ cart[Len(cart)].name = action.payload.name
        /\ cart[Len(cart)].price = action.payload.price
        /\ cart[Len(cart)].quantity = 1
        /\ cart[Len(cart)].image =
              (IF "image" \in DOMAIN action.payload
               THEN action.payload.image ELSE "")
        /\ totalQuantity = prev.totalQuantity + 1
        /\ totalAmount = prev.totalAmount + action.payload.price

(* an addItem without image has just put a second item into the cart *)
C6_Witness ==
    /\ action.type = "addItem"
    /\ PrevIndex = 0
    /\ "image" \notin DOMAIN action.payload
    /\ Len(prev.cart) = 1
    /\ Len(cart) = 2
    /\ cart[2].image = ""

(* C7: the stored price of an item is the price of the addItem that put it *)
(* into the cart, and no later action changes it while the item stays in   *)
(* the cart; an addItem for the same id with another price changes only    *)
(* the quantity.                                                           *)
C7_PriceFixed ==
    /\ (action.type = "addItem" /\ PrevIndex = 0)
          => (CurIndex # 0 /\ cart[CurIndex].price = action.payload.price)
    /\ \A i \in 1..Len(prev.cart) :
          LET k == find(cart, prev.cart[i].id)
          IN  k # 0 =>
                /\ cart[k].price = prev.cart[i].price
                /\ (action.type = "addItem" /\ i = PrevIndex) =>
                      cart[k] = [prev.cart[i] EXCEPT !.quantity = @ + 1]

(* an addItem with another price has just acted on an item whose stored    *)
(* price is still the old one                                              *)
C7_Witness ==
    /\ action.type = "addItem"
    /\ PrevIndex # 0
    /\ action.payload.price > prev.cart[PrevIndex].price
    /\ cart[CurIndex].price = prev.cart[PrevIndex].price

(* C8: removeItem, updateQuantity and decreaseQuantity with an id that     *)
(* matches no item leave the item list, totalQuantity and totalAmount      *)
(* unchanged.                                                              *)
C8_AbsentIdNoOp ==
    (/\ action.type \in {"removeItem", "updateQuantity", "decreaseQuantity"}
     /\ PrevIndex = 0)
        => /\ cart = prev.cart
           /\ totalQuantity = prev.totalQuantity
           /\ totalAmount = prev.totalAmount

(* a decreaseQuantity for an absent id has just acted on a cart that is    *)
(* not empty                                                               *)
C8_Witness ==
    /\ action.type = "decreaseQuantity"
    /\ PrevIndex = 0
    /\ prev.cart # <<>>
    /\ cart = prev.cart

(* C9: removeItem on an id in the cart deletes that item whatever its      *)
(* quantity, subtracts its quantity from totalQuantity and its stored      *)
(* price * quantity from totalAmount, and leaves the other items unchanged *)
(* and in the same order.                                                  *)
C9_RemovePresent ==
    (action.type = "removeItem" /\ PrevIndex # 0) =>
        /\ cart = Without(prev.cart, PrevIndex)
        /\ CurIndex = 0
        /\ totalQuantity =
              prev.totalQuantity - prev.cart[PrevIndex].quantity
        /\ totalAmount =
              prev.totalAmount
                - prev.cart[PrevIndex].price * prev.cart[PrevIndex].quantity

(* a removeItem has just deleted an item of quantity 2 and price > 0 from  *)
(* a cart of two items                                                     *)
C9_Witness ==
    /\ action.type = "removeItem"
    /\ PrevIndex # 0
    /\ prev.cart[PrevIndex].quantity = 2
    /\ prev.cart[PrevIndex].price > 0
    /\ Len(prev.cart) = 2
    /\ Len(cart) = 1

(* C10: for every id in the cart and every quantity <= 0,                  *)
(* updateQuantity({id, quantity}) yields the same next state (items and    *)
(* both totals) as removeItem(id).                                         *)
C10_UpdateNonPositiveIsRemove ==
    \A id \in Ids : \A quantity \in Quantities :
        (quantity <= 0 /\ find(cart, id) # 0) =>
            updateQuantity(State, [id |-> id, quantity |-> quantity])
                = removeItem(State, id)

(* an updateQuantity with quantity 0 has just deleted an item of quantity  *)
(* 2, with the result removeItem gives, and the cart still holds an item   *)
C10_Witness ==
    /\ action.type = "updateQuantity"
    /\ action.payload.quantity = 0
    /\ PrevIndex # 0
    /\ prev.cart[PrevIndex].quantity = 2
    /\ State = removeItem(prev, ActionId)
    /\ cart # <<>>

(* C11: updateQuantity({id, quantity}) with quantity >= 1 on an id in the   *)
(* cart sets that item's quantity to the given value, changes              *)
(* totalQuantity by diff = quantity - previous quantity and totalAmount by *)
(* stored price * diff, and keeps the item at its position with all other  *)
(* items unchanged.                                                        *)
C11_UpdatePositive ==
    (/\ action.type = "updateQuantity"
     /\ action.payload.quantity >= 1
     /\ PrevIndex # 0) =>
        LET diff == action.payload.quantity - prev.cart[PrevIndex].quantity
        IN  /\ Len(cart) = Len(prev.cart)
            /\ CurIndex = PrevIndex
            /\ \A i \in 1..Len(cart) :
                  IF i = PrevIndex
                  THEN cart[i] = [prev.cart[i] EXCEPT
                                    !.quantity = action.payload.quantity]
                  ELSE cart[i] = prev.cart[i]
            /\ totalQuantity = prev.totalQuantity + diff
            /\ totalAmount =
                  prev.totalAmount + prev.cart[PrevIndex].price * diff

(* an updateQuantity has just raised the second of two items from quantity *)
(* 1 to 2, the item having a price > 0                                     *)
C11_Witness ==
    /\ action.type = "updateQuantity"
    /\ action.payload.quantity = 2
    /\ PrevIndex = 2
    /\ prev.cart[2].quantity = 1
    /\ prev.cart[2].price > 0
    /\ cart[2].quantity = 2

(* C12: decreaseQuantity on an id in the cart: at quantity 1 the item is   *)
(* deleted and the next state is the one removeItem(id) gives; otherwise   *)
(* the quantity goes down by 1 and the item stays.  In both cases          *)
(* totalQuantity goes down by 1 and totalAmount by the stored price.       *)
C12_DecreasePresent ==
    (action.type = "decreaseQuantity" /\ PrevIndex # 0) =>
        /\ IF prev.cart[PrevIndex].quantity = 1
           THEN /\ CurIndex = 0
                /\ State = removeItem(prev, ActionId)
           ELSE /\ CurIndex = PrevIndex
                /\ cart = [prev.cart EXCEPT ![PrevIndex].quantity = @ - 1]
        /\ totalQuantity = prev.totalQuantity - 1
        /\ totalAmount = prev.totalAmount - prev.cart[PrevIndex].price

(* a decreaseQuantity has just deleted an item of quantity 1 and price > 0 *)
(* from a cart of two items                                                *)
C12_Witness ==
    /\ action.type = "decreaseQuantity"
    /\ PrevIndex # 0
    /\ prev.cart[PrevIndex].quantity = 1
    /\ prev.cart[PrevIndex].price > 0
    /\ Len(prev.cart) = 2
    /\ CurIndex = 0

(* a decreaseQuantity has just taken an item from quantity 2 to 1 *)
C12_WitnessStay ==
    /\ action.type = "decreaseQuantity"
    /\ PrevIndex # 0
    /\ prev.cart[PrevIndex].quantity = 2
    /\ CurIndex # 0

(* C13: clearCart from any reachable state yields the empty cart (no       *)
(* items, totalQuantity 0, totalAmount 0), which is the initial state, and *)
(* clearCart applied twice yields the same state as applied once.          *)
C13_ClearCart ==
    /\ action.type = "clearCart" =>
          (cart = <<>> /\ totalQuantity = 0 /\ totalAmount = 0)
    /\ clearCart(State) = initialState
    /\ clearCart(clearCart(State)) = clearCart(State)

(* a clearCart has just emptied a cart of two items whose totalAmount was  *)
(* not 0                                                                   *)
C13_Witness ==
    /\ action.type = "clearCart"
    /\ Len(prev.cart) = 2
    /\ prev.totalAmount # 0
    /\ State = initialState

(* C14: for every reachable state and every addItem payload, addItem       *)
(* followed at once by decreaseQuantity of the same id gives back the      *)
(* state before the add: same items, quantities and totals.                *)
C14_AddDecreaseRoundTrip ==
    \A newItem \in ItemPayloads :
        decreaseQuantity(addItem(State, newItem), newItem.id) = State

(* C18: with non-negative payload prices, totalAmount and totalQuantity    *)
(* are never negative in a reachable state.                                *)
C18_TotalsNonNegative == totalQuantity >= 0 /\ totalAmount >= 0

(* C19: in every reachable state in which the cart holds no items,         *)
(* totalQuantity is 0 and totalAmount is 0.                                *)
C19_EmptyCartZeroTotals ==
    cart = <<>> => (totalQuantity = 0 /\ totalAmount = 0)

(* C20: for every id in the cart, with current quantity q,                 *)
(* decreaseQuantity(id) gives the same next state as                       *)
(* updateQuantity({id, quantity: q - 1}), also for q = 1 where both delete *)
(* the item.                                                               *)
C20_DecreaseIsUpdate ==
    \A id \in Ids :
        LET k == find(cart, id)
        IN  k # 0 =>
              decreaseQuantity(State, id)
                = updateQuantity(State,
                                 [id |-> id, quantity |-> cart[k].quantity - 1])

(* a decreaseQuantity has just taken an item of price > 0 from quantity 2  *)
(* to 1, as the updateQuantity to 1 would have, and the cart now holds two *)
(* items of quantity 1 to compare the two reducers on                      *)
C20_Witness ==
    /\ action.type = "decreaseQuantity"
    /\ PrevIndex # 0
    /\ prev.cart[PrevIndex].quantity = 2
    /\ prev.cart[PrevIndex].price > 0
    /\ State = updateQuantity(prev, [id |-> ActionId, quantity |-> 1])
    /\ Len(cart) = 2
    /\ \A i \in 1..Len(cart) : cart[i].quantity = 1

(* C17: item order is first-add order and is never re-sorted: across any   *)
(* single action two items that are in the cart before and after keep      *)
(* their relative order, and an item that is removed and added again       *)
(* re-enters at the end of the cart.                                       *)
C17_OrderKept ==
    /\ \A i, j \in 1..Len(prev.cart) :
          LET a == find(cart, prev.cart[i].id)
              b == find(cart, prev.cart[j].id)
          IN  (i < j /\ a # 0 /\ b # 0) => a < b
    /\ (action.type = "addItem" /\ PrevIndex = 0) => CurIndex = Len(cart)
    /\ \A newItem \in ItemPayloads :
          find(cart, newItem.id) # 0 =>
              LET readded == addItem(removeItem(State, newItem.id), newItem)
              IN  /\ Len(readded.cart) = Len(cart)
                  /\ find(readded.cart, newItem.id) = Len(cart)

(* an addItem has just put an id at the end of the cart behind an item     *)
(* with a larger id, and removing and re-adding the first item would move  *)
(* it behind the second                                                    *)
C17_Witness ==
    /\ action.type = "addItem"
    /\ PrevIndex = 0
    /\ Len(cart) = 2
    /\ CurIndex = 2
    /\ cart[1].id > cart[2].id
    /\ prev.cart = <<cart[1]>>

(* a cart item with the five fields of the slice's items, typed *)
WellFormedItem(item) ==
    /\ DOMAIN item = {"id", "name", "price", "quantity", "image"}
    /\ item.id \in Ids
    /\ item.name \in STRING
    /\ item.price \in Nat
    /\ item.quantity \in Nat
    /\ item.quantity >= 1
    /\ item.image \in STRING

(* a state of the slice's shape: a list of items and two integer totals *)
WellFormed(state) ==
    /\ DOMAIN state = {"cart", "totalQuantity", "totalAmount"}
    /\ DOMAIN state.cart = 1..Len(state.cart)
    /\ \A i \in 1..Len(state.cart) : WellFormedItem(state.cart[i])
    /\ state.totalQuantity \in Int
    /\ state.totalAmount \in Int

(* C16: every transition is total: in every reachable state each of the    *)
(* five reducers, with any id (present or absent), any integer quantity    *)
(* (zero and negative included) and any non-negative price, yields a       *)
(* well-formed state, and each of the five actions is enabled (addItem     *)
(* up to the explored total quantity); no action is rejected.  The only    *)
(* guard of an action is InBounds of the reducer's result (see Dispatch),  *)
(* so the last five conjuncts are the actions' enabling conditions.        *)
C16_Total ==
    /\ WellFormed(State)
    /\ \A newItem \in ItemPayloads : WellFormed(addItem(State, newItem))
    /\ \A id \in Ids :
          /\ WellFormed(removeItem(State, id))
          /\ WellFormed(decreaseQuantity(State, id))
    /\ \A payload \in QuantityPayloads :
          WellFormed(updateQuantity(State, payload))
    /\ WellFormed(clearCart(State))
    /\ totalQuantity < MaxTotalQuantity =>
          \E newItem \in ItemPayloads : InBounds(addItem(State, newItem))
    /\ \E id \in Ids : InBounds(removeItem(State, id))
    /\ \E payload \in QuantityPayloads :
          InBounds(updateQuantity(State, payload))
    /\ \E id \in Ids : InBounds(decreaseQuantity(State, id))
    /\ InBounds(clearCart(State))

(* an updateQuantity with a negative quantity for an absent id has just    *)
(* acted on a cart that is not empty and left a well-formed state          *)
C16_Witness ==
    /\ action.type = "updateQuantity"
    /\ action.payload.quantity < 0
    /\ PrevIndex = 0
    /\ prev.cart # <<>>
    /\ WellFormed(State)
    /\ State = prev

(* C15: a quantity update by direct input validates the quantity with a    *)
(* minimum of 1: an update through the Cart component's                    *)
(* handleUpdateQuantity with a parsed value below 1 is not applied, so an  *)
(* item in the cart is still in the cart with quantity >= 1 after any      *)
(* direct-input quantity update.  (Under SpecCart every updateQuantity is  *)
(* dispatched by handleUpdateQuantity.)                                    *)
C15_DirectInputMinimumOne ==
    (action.type = "updateQuantity" /\ PrevIndex # 0) =>
        /\ action.payload.quantity >= 1
        /\ CurIndex # 0
        /\ cart[CurIndex].quantity >= 1

====
